---- MODULE Spec2Model ----
(***************************************************************************)
(* The diagram rendering and document export pipeline of docs/:            *)
(*   render_diagrams.py  extract_mermaid_blocks, main (one PNG per block)  *)
(*   generate_pdf.py     build_offline_html, main (one PDF of the page)    *)
(*                                                                         *)
(* Text is a sequence of tokens.  A token is one lexical unit of the       *)
(* regular expressions the code applies:                                   *)
(*   "O"  an opening delimiter matching  <pre\s+class="mermaid">           *)
(*   "C"  the closing delimiter          </pre>                            *)
(*   "S"  a script tag matching the CDN pattern of build_offline_html      *)
(*   "B"  the literal <script>,  "E"  the literal </script>                *)
(*   "n"  a newline (whitespace: \s matches it, "." only under DOTALL)     *)
(*   "a", "j"  any other character of the document / of the engine asset   *)
(***************************************************************************)
EXTENDS Integers, Sequences, FiniteSets, TLC

VARIABLES
    prog,       \* which entry point runs: "extract", "bundle", "render", "export"
    pc,         \* the position of the run in its entry point
    segs,       \* how the source document was composed (text and diagram blocks)
    html,       \* the content of process_flows.html
    asset,      \* the content of node_modules/mermaid/dist/mermaid.min.js
    blocks,     \* render_diagrams.main: blocks (the extraction result)
    i,          \* render_diagrams.main: the loop index
    label,      \* render_diagrams.main: label of the current job
    target,     \* render_diagrams.main: mermaid_el ("svg", "container", "none")
    pw,         \* the async_playwright() context: "none", "active", "stopped"
    browser,    \* the browser session: "none", "open", "closed"
    page,       \* the current page: "none", "open", "closed"
    opened,     \* the pages open in the browser, by the index of their job
    dom,        \* the .mermaid elements of the loaded page, in document order
    styled,     \* generate_pdf.main: the print style tag was added
    tmpFiles,   \* the indices k for which _tmp_diagram_<k>.html exists
    fs,         \* the files of SCRIPT_DIR by name: [exists, content]
    written,    \* the image files written by screenshot, in order of writing
    pdfs,       \* how many times page.pdf wrote PDF_PATH
    results,    \* outcome of every job that has ended: "ok", or its error
    exc,        \* the exception that is propagating or ended the run, or "none"
    launches,   \* how many times chromium.launch was called
    steps,      \* the steps the current job (or the export) has completed
    stdout,     \* the lines printed by the run, in order
    other       \* the state of a second run in the same directory, if any

vars == <<prog, pc, segs, html, asset, blocks, i, label, target, pw, browser,
          page, opened, dom, styled, tmpFiles, fs, written, pdfs, results,
          exc, launches, steps, stdout, other>>

----------------------------------------------------------------------------
(* Bounds of the model *)

\* most segments (text runs and diagram blocks) of a document given to the
\* extractor alone
MaxSegs == 2
\* most tokens of one diagram block's inner text
MaxBody == 3
\* most tokens of one text run between diagram blocks
MaxText == 1
\* most diagram blocks of a document given to the per-diagram pipeline
MaxBlocks == 12
\* most diagram blocks of a document given to the document export
MaxExportDiagrams == 2
\* most diagram blocks of a document given to two runs side by side
MaxPairBlocks == 2
\* most tokens of a document given to the bundler alone
MaxBundleLen == 4
\* most tokens of the engine asset
MaxAsset == 2

----------------------------------------------------------------------------
(* Text *)

\* all sequences over alphabet A of length at most n
SeqsUpTo(A, n) == UNION { [1..k -> A] : k \in 0..n }

\* \s of the regular expressions
IsSpace(t) == t = "n"

RECURSIVE Flatten(_)
\* the text of a document composed of the segments sg: a text run is its
\* body, a diagram block is its body between the two delimiters
Flatten(sg) ==
    IF sg = <<>> THEN <<>>
    ELSE LET s == Head(sg)
         IN (IF s.kind = "block" THEN <<"O">> \o s.body \o <<"C">>
             ELSE IF s.kind = "open" THEN <<"O">> \o s.body
             ELSE s.body)
            \o Flatten(Tail(sg))

RECURSIVE Count(_, _)
\* number of occurrences of token t in text h
Count(h, t) ==
    IF h = <<>> THEN 0
    ELSE (IF Head(h) = t THEN 1 ELSE 0) + Count(Tail(h), t)

----------------------------------------------------------------------------
(* render_diagrams.extract_mermaid_blocks *)

RECURSIVE SkipSpaces(_, _)
\* greedy \s* from position p: the first position at or after p that holds
\* no whitespace (Len(h)+1 when the text ends)
SkipSpaces(h, p) ==
    IF p <= Len(h) /\ IsSpace(h[p]) THEN SkipSpaces(h, p + 1) ELSE p

\* \s*</pre> matches at position e
SpacesThenClose(h, e) ==
    LET q == SkipSpaces(h, e) IN q <= Len(h) /\ h[q] = "C"

\* "." without re.DOTALL: every character but a newline
Dot_NoNewline(t) == t # "n"

\* "." under re.DOTALL matches every character, a newline included
Dot(t) == TRUE

RECURSIVE GreedyEnd(_, _)
\* the group written greedy, (.*): the last position at which the rest of
\* the pattern matches
GreedyEnd(h, e) ==
    IF e > Len(h) THEN 0
    ELSE LET later == GreedyEnd(h, e + 1)
         IN IF later # 0 THEN later
            ELSE IF SpacesThenClose(h, e) THEN e ELSE 0

RECURSIVE LazyEnd(_, _)
\* the lazy group (.*?) started at q, growing one character at a time: the
\* first position e >= q at which the rest of the pattern, \s*</pre>,
\* matches; 0 when the group cannot grow further
LazyEnd(h, e) ==
    IF e > Len(h) THEN 0
    ELSE IF SpacesThenClose(h, e) THEN e
    ELSE IF Dot(h[e]) THEN LazyEnd(h, e + 1)
    ELSE 0

\* re.findall from position p: the groups of the leftmost non-overlapping
\* matches.  The leading \s* never needs to give characters back: a shorter
\* leading run only moves whitespace into the front of the group, which then
\* meets the same characters.
FindAll(h, p) ==
    LET from[s \in 1..(Len(h) + 1)] ==
            IF s > Len(h) THEN <<>>
            ELSE IF h[s] # "O" THEN from[s + 1]
            ELSE LET q == SkipSpaces(h, s + 1)
                     e == LazyEnd(h, q)
                 IN IF e = 0 THEN from[s + 1]
                    ELSE <<SubSeq(h, q, e - 1)>>
                         \o from[SkipSpaces(h, e) + 1]
    IN from[p]

extract_mermaid_blocks(h) == FindAll(h, 1)

----------------------------------------------------------------------------
(* generate_pdf.build_offline_html *)

RECURSIVE SearchFrom(_, _)
\* re.search for the CDN script tag: the position of the first match at or
\* after p, 0 when there is none
SearchFrom(h, p) ==
    IF p > Len(h) THEN 0
    ELSE IF h[p] = "S" THEN p
    ELSE SearchFrom(h, p + 1)

\* f"<script>{mermaid_code}</script>"
InlineScript(code) == <<"B">> \o code \o <<"E">>

\* the slice after the match taken from match.start(): the tag is kept
Bundled_KeepTag(h, code) ==
    LET m == SearchFrom(h, 1)
    IN IF m # 0
       THEN SubSeq(h, 1, m - 1) \o InlineScript(code) \o SubSeq(h, m, Len(h))
       ELSE h

\* the inline script added also when there is no match
Bundled_Always(h, code) ==
    LET m == SearchFrom(h, 1)
    IN IF m # 0
       THEN SubSeq(h, 1, m - 1) \o InlineScript(code) \o SubSeq(h, m + 1, Len(h))
       ELSE InlineScript(code) \o h

RECURSIVE Bundled_All(_, _)
\* every match replaced, as re.sub would
Bundled_All(h, code) ==
    IF h = <<>> THEN <<>>
    ELSE (IF Head(h) = "S" THEN InlineScript(code) ELSE <<Head(h)>>)
         \o Bundled_All(Tail(h), code)

\* html[:match.start()] + inline + html[match.end():] when the pattern is
\* found, html as it is otherwise
Bundled(h, code) ==
    LET m == SearchFrom(h, 1)
    IN IF m # 0
       THEN SubSeq(h, 1, m - 1) \o InlineScript(code) \o SubSeq(h, m + 1, Len(h))
       ELSE h

----------------------------------------------------------------------------
(* render_diagrams.main: labels and output names *)

DIAGRAM_LABELS ==
    << "system_overview", "data_ingestion", "solve_pipeline", "presolve_llm",
       "solver_engine", "postsolve_llm", "auto_runner", "contract_lifecycle",
       "decision_ledger", "whatif_analysis", "end_to_end" >>

\* the fallback label numbered from the 0-based index
LabelOf_ZeroBased(k) ==
    IF k < Len(DIAGRAM_LABELS) THEN DIAGRAM_LABELS[k + 1]
    ELSE "diagram_" \o ToString(k)

\* DIAGRAM_LABELS[i] if i < len(DIAGRAM_LABELS) else f"diagram_{i+1}"
LabelOf(k) ==
    IF k < Len(DIAGRAM_LABELS) THEN DIAGRAM_LABELS[k + 1]
    ELSE "diagram_" \o ToString(k + 1)

\* the format specification :02d
Pad2(n) == IF n < 10 THEN "0" \o ToString(n) ELSE ToString(n)

\* the image named by its label alone
OutName_LabelOnly(k, lab) == lab \o ".png"

\* f"{i+1:02d}_{label}.png"
OutName(k, lab) == Pad2(k + 1) \o "_" \o lab \o ".png"

----------------------------------------------------------------------------
(* The inputs of a run *)

Text(b) == [kind |-> "text", body |-> b]
Block(b) == [kind |-> "block", body |-> b]
\* an opening delimiter and inner text that no closing delimiter follows
Malformed(b) == [kind |-> "open", body |-> b]

\* documents given to extract_mermaid_blocks alone: text runs without an
\* opening delimiter and diagram blocks whose inner text holds no closing
\* delimiter (it may hold newlines, and the text of an opening delimiter),
\* in any order
ExtractStructs ==
    LET bodies == SeqsUpTo({"a", "n"}, MaxBody)
                  \cup { <<"O">>, <<"n", "O", "a">> }
        choice == { Text(b) : b \in SeqsUpTo({"a", "C"}, MaxText) }
                  \cup { Block(b) : b \in bodies }
    IN SeqsUpTo(choice, MaxSegs)

\* documents with at least one malformed block: certain text runs, diagram
\* blocks and malformed blocks, in any order
MalformedStructs ==
    LET choice == { Text(<<"a">>), Block(<<"a">>), Block(<<"n", "a">>),
                    Malformed(<<>>), Malformed(<<"a">>) }
    IN { sg \in SeqsUpTo(choice, MaxSegs) :
           \E k \in 1..Len(sg) : sg[k].kind = "open" }

\* documents given to build_offline_html alone
BundleStructs == { <<Text(b)>> : b \in SeqsUpTo({"a", "S"}, MaxBundleLen) }

\* documents given to a pipeline: a head with or without the CDN script tag,
\* then k diagram blocks
PipelineStructs(maxk) ==
    { <<Text(h)>> \o [j \in 1..k |-> Block(<<"n", "a", "n", "a", "n">>)] :
        h \in {<<"S">>, <<"a">>}, k \in 0..maxk }

StructsFor(pr) ==
    CASE pr = "extract" -> ExtractStructs \cup MalformedStructs
      [] pr = "bundle"  -> BundleStructs
      [] pr = "render"  -> PipelineStructs(MaxBlocks)
      [] pr = "export"  -> PipelineStructs(MaxExportDiagrams)

AssetsFor(pr) ==
    IF pr = "bundle" THEN SeqsUpTo({"j", "S"}, MaxAsset) \ {<<>>} ELSE {<<"j">>}

StartOf(pr) ==
    CASE pr = "extract" -> "e_call"
      [] pr = "bundle"  -> "b_call"
      [] pr = "render"  -> "r_read"
      [] pr = "export"  -> "x_bundle"

NoFile == [exists |-> FALSE, content |-> <<>>]

\* HTML_PATH, the source document
HTML_PATH == "process_flows.html"

\* the path that is written a second time instead of the ephemeral one
OfflinePath_IsSource == HTML_PATH

\* build_offline_html: tmp = SCRIPT_DIR / "_process_flows_offline.html"
OfflinePath == "_process_flows_offline.html"

Paths == {"process_flows.html", "_process_flows_offline.html"}

\* the files the claims are about
source == fs["process_flows.html"]
offline == fs["_process_flows_offline.html"]

\* the state of a run that does not exist
NoRun == [pc |-> "none"]

\* the local state of a run of entry point pr that has not started
FreshRun(pr) ==
    [pc |-> StartOf(pr), blocks |-> <<>>, i |-> 0, label |-> "",
     target |-> "none", pw |-> "none", browser |-> "none", page |-> "none",
     dom |-> <<>>, styled |-> FALSE, written |-> <<>>, pdfs |-> 0,
     results |-> <<>>, exc |-> "none", launches |-> 0, steps |-> <<>>,
     opened |-> {}, stdout |-> <<>>]

\* the documents given to two runs side by side
PairStructsFor(pr) ==
    CASE pr = "extract" -> { sg \in ExtractStructs : Len(sg) <= 1 }
      [] pr = "bundle"  -> BundleStructs
      [] pr = "render"  -> PipelineStructs(MaxPairBlocks)
      [] pr = "export"  -> PipelineStructs(MaxPairBlocks)

\* the start of a run; with second, a second run of the same entry point
\* starts on the same document in the same directory
InitFrom(second) ==
    /\ prog \in {"extract", "bundle", "render", "export"}
    /\ segs \in IF second THEN PairStructsFor(prog) ELSE StructsFor(prog)
    /\ fs = [p \in Paths |->
                IF p = HTML_PATH
                THEN [exists |-> TRUE, content |-> Flatten(segs)] ELSE NoFile]
    /\ html = Flatten(segs)
    /\ asset \in AssetsFor(prog)
    /\ pc = StartOf(prog)
    /\ blocks = <<>>
    /\ i = 0
    /\ label = ""
    /\ target = "none"
    /\ pw = "none"
    /\ browser = "none"
    /\ page = "none"
    /\ opened = {}
    /\ dom = <<>>
    /\ styled = FALSE
    /\ tmpFiles = {}
    /\ written = <<>>
    /\ pdfs = 0
    /\ results = <<>>
    /\ exc = "none"
    /\ launches = 0
    /\ steps = <<>>
    /\ stdout = <<>>
    /\ other = IF second THEN FreshRun(prog) ELSE NoRun

Init == InitFrom(FALSE)

InitPair == InitFrom(TRUE)

inputs == <<prog, segs, html, asset, other>>
files == <<tmpFiles, fs, written, pdfs, stdout>>
session == <<pw, browser, page, opened, dom, styled, launches>>
job == <<blocks, i, label, target, steps>>

----------------------------------------------------------------------------
(* The rendering engine inside a loaded page *)

NewElement == [processed |-> FALSE, svg |-> FALSE]

\* d.getAttribute('data-processed') === 'true' || d.querySelector('svg')
Rendered(d) == d.processed \/ d.svg

\* the engine marks an element processed, or gives it its svg child; it runs
\* in the page for as long as the page and the driver live
EngineStep ==
    /\ pw = "active" /\ page = "open"
    /\ \E k \in 1..Len(dom) :
         \/ /\ ~dom[k].processed
            /\ dom' = [dom EXCEPT ![k].processed = TRUE]
         \/ /\ ~dom[k].svg
            /\ dom' = [dom EXCEPT ![k].svg = TRUE]
    /\ UNCHANGED <<inputs, pc, job, pw, browser, page, opened, styled,
                   files, results, exc, launches>>

\* the engine, having rendered the diagram of a job's page, loses the
\* element: the two selectors of lines 104-106 then find nothing
EngineLosesElement ==
    /\ prog = "render" /\ pw = "active" /\ page = "open"
    /\ Len(dom) >= 1 /\ Rendered(dom[1])
    /\ dom' = <<>>
    /\ UNCHANGED <<inputs, pc, job, pw, browser, page, opened, styled,
                   files, results, exc, launches>>

----------------------------------------------------------------------------
(* The library calls on their own *)

\* extract_mermaid_blocks(html)
ExtractCall ==
    /\ pc = "e_call"
    /\ blocks' = extract_mermaid_blocks(html)
    /\ pc' = "done"
    /\ UNCHANGED <<inputs, i, label, target, session, files, results, exc,
                   steps>>

\* build_offline_html(): read both files, replace, write the ephemeral file
WriteOffline == [exists |-> TRUE, content |-> Bundled(html, asset)]

BundleCall ==
    /\ pc = "b_call"
    /\ fs' = [fs EXCEPT ![OfflinePath] = WriteOffline]
    /\ pc' = "done"
    /\ UNCHANGED <<inputs, job, session, tmpFiles, written, stdout, pdfs,
                   results, exc>>

----------------------------------------------------------------------------
(* render_diagrams.main *)

\* the completion predicate of one job: the first .mermaid element exists and
\* is processed or has an svg child
JobPredicate == Len(dom) >= 1 /\ Rendered(dom[1])

\* an exception raised inside the loop body: nothing in main catches it, so
\* it leaves the loop and reaches the exit of the async with block
RaiseInJob(e) ==
    /\ exc' = e
    /\ results' = Append(results, e)
    /\ pc' = "r_unwind"

\* lines 71-74: make the image directory, read the document and the asset
RReadInputs ==
    /\ pc = "r_read"
    /\ pc' = "r_extract"
    /\ UNCHANGED <<inputs, job, session, files, results, exc>>

\* line 74 raising: the asset file cannot be read
RReadAssetFail ==
    /\ pc = "r_read"
    /\ exc' = "asset_unreadable"
    /\ pc' = "crashed"
    /\ UNCHANGED <<inputs, job, session, files, results>>

\* lines 75-78: extract the blocks, print their number, start the driver
RExtract ==
    /\ pc = "r_extract"
    /\ blocks' = extract_mermaid_blocks(html)
    /\ pw' = "active"
    /\ pc' = "r_launch"
    /\ stdout' = Append(stdout, "found")
    /\ UNCHANGED <<inputs, i, label, target, browser, page, opened, dom,
                   styled, tmpFiles, fs, written, pdfs, results, exc,
                   launches, steps>>

\* lines 79-83: chromium.launch returns
RLaunch ==
    /\ pc = "r_launch"
    /\ launches' = launches + 1
    /\ browser' = "open"
    /\ pc' = "r_loop"
    /\ UNCHANGED <<inputs, job, pw, page, opened, dom, styled, files,
                   results, exc>>

\* the launch tried again after it failed
RLaunchFail_Retry ==
    /\ pc = "r_launch" /\ launches < 3
    /\ launches' = launches + 1
    /\ exc' = "launch_failed"
    /\ UNCHANGED <<inputs, job, pc, pw, browser, page, opened, dom, styled,
                   files, results>>

\* lines 79-83: chromium.launch raises
RLaunchFail ==
    /\ pc = "r_launch"
    /\ launches' = launches + 1
    /\ exc' = "launch_failed"
    /\ pc' = "r_unwind"
    /\ UNCHANGED <<inputs, job, pw, browser, page, opened, dom, styled,
                   files, results>>

\* the loop entered once more than there are blocks
RNextJob_OffByOne ==
    /\ pc = "r_loop" /\ i <= Len(blocks)
    /\ label' = LabelOf(i)
    /\ steps' = <<"page">>
    /\ page' = "open"
    /\ dom' = <<>>
    /\ target' = "none"
    /\ pc' = "r_write"
    /\ opened' = opened \cup {i}
    /\ UNCHANGED <<inputs, blocks, i, pw, browser, styled, files, results,
                   exc, launches>>

\* lines 85-87: the next block, its label, a new page
RNextJob ==
    /\ pc = "r_loop" /\ i < Len(blocks)
    /\ label' = LabelOf(i)
    /\ steps' = <<"page">>
    /\ page' = "open"
    /\ dom' = <<>>
    /\ target' = "none"
    /\ pc' = "r_write"
    /\ opened' = opened \cup {i}
    /\ UNCHANGED <<inputs, blocks, i, pw, browser, styled, files, results,
                   exc, launches>>

\* line 87: browser.new_page raises
RNewPageFail ==
    /\ pc = "r_loop" /\ i < Len(blocks)
    /\ RaiseInJob("new_page_failed")
    /\ UNCHANGED <<inputs, job, session, files>>

\* line 85: the blocks are exhausted; line 115: browser.close()
RCloseBrowser ==
    /\ pc = "r_loop" /\ i >= Len(blocks)
    /\ browser' = "closed"
    /\ pc' = "r_exit"
    /\ opened' = {}
    /\ UNCHANGED <<inputs, job, pw, page, dom, styled, files, results, exc,
                   launches>>

\* lines 89-91: write _tmp_diagram_<i>.html
RWriteTmp ==
    /\ pc = "r_write"
    /\ steps' = Append(steps, "write")
    /\ tmpFiles' = tmpFiles \cup {i}
    /\ pc' = "r_goto"
    /\ UNCHANGED <<inputs, blocks, i, label, target, session, fs, written,
                   stdout, pdfs, results, exc>>

\* line 93: page.goto returns at domcontentloaded; the page holds the one
\* <div class="mermaid"> of build_single_diagram_html
RGoto ==
    /\ pc = "r_goto" /\ i \in tmpFiles
    /\ steps' = Append(steps, "goto")
    /\ dom' = <<NewElement>>
    /\ pc' = "r_wait"
    /\ UNCHANGED <<inputs, blocks, i, label, target, pw, browser, page,
                   opened, styled, files, results, exc, launches>>

\* the failed navigation recorded and the loop carried on with the next block
RGotoTimeout_Skipped ==
    /\ pc = "r_goto"
    /\ results' = Append(results, "navigation_timeout")
    /\ i' = i + 1
    /\ pc' = "r_loop"
    /\ UNCHANGED <<inputs, blocks, label, target, steps, session, files,
                   exc>>

\* line 93: page.goto raises after 15 s
RGotoTimeout ==
    /\ pc = "r_goto"
    /\ RaiseInJob("navigation_timeout")
    /\ UNCHANGED <<inputs, job, session, files>>

\* the wait returning whatever the page holds
RWait_Unchecked ==
    /\ pc = "r_wait"
    /\ steps' = Append(steps, "ready")
    /\ pc' = "r_sleep"
    /\ UNCHANGED <<inputs, blocks, i, label, target, session, files,
                   results, exc>>

\* lines 95-101: wait_for_function returns once the predicate is true
RWait ==
    /\ pc = "r_wait" /\ JobPredicate
    /\ steps' = Append(steps, "ready")
    /\ pc' = "r_sleep"
    /\ UNCHANGED <<inputs, blocks, i, label, target, session, files,
                   results, exc>>

\* the timeout caught and the job carried on to the capture
RWaitTimeout_Swallowed ==
    /\ pc = "r_wait" /\ ~JobPredicate
    /\ exc' = "render_timeout"
    /\ results' = Append(results, "render_timeout")
    /\ pc' = "r_sleep"
    /\ UNCHANGED <<inputs, job, session, files>>

\* wait_for_function without a timeout: the job keeps polling
RWaitTimeout_Disabled ==
    /\ pc = "r_wait" /\ ~JobPredicate
    /\ UNCHANGED vars

\* lines 95-101: wait_for_function raises after 30 s without the predicate
RWaitTimeout ==
    /\ pc = "r_wait" /\ ~JobPredicate
    /\ RaiseInJob("render_timeout")
    /\ UNCHANGED <<inputs, job, session, files>>

\* line 102: asyncio.sleep(0.3)
RSettle ==
    /\ pc = "r_sleep"
    /\ steps' = Append(steps, "settle")
    /\ pc' = "r_query"
    /\ UNCHANGED <<inputs, blocks, i, label, target, session, files,
                   results, exc>>

\* the container taken whenever it exists
QueryTarget_ContainerFirst ==
    IF Len(dom) >= 1 THEN "container" ELSE "none"

\* lines 104-106: ".mermaid svg", and ".mermaid" when that finds nothing
QueryTarget ==
    IF Len(dom) >= 1 /\ dom[1].svg THEN "svg"
    ELSE IF Len(dom) >= 1 THEN "container"
    ELSE "none"

RQuery ==
    /\ pc = "r_query"
    /\ steps' = Append(steps, "query")
    /\ target' = QueryTarget
    /\ pc' = "r_shot"
    /\ UNCHANGED <<inputs, blocks, i, label, session, files, results, exc>>

\* the image list kept newest first
RScreenshot_Prepend ==
    /\ pc = "r_shot" /\ target # "none"
    /\ steps' = Append(steps, "capture")
    /\ written' = <<OutName(i, label)>> \o written
    /\ pc' = "r_print"
    /\ UNCHANGED <<inputs, blocks, i, label, target, session, tmpFiles, fs, stdout,
                   pdfs, results, exc>>

\* the image named after the element that was captured
RScreenshot_NamedByTarget ==
    /\ pc = "r_shot" /\ target # "none"
    /\ steps' = Append(steps, "capture")
    /\ written' = Append(written, OutName(i, target))
    /\ pc' = "r_print"
    /\ UNCHANGED <<inputs, blocks, i, label, target, session, tmpFiles, fs, stdout,
                   pdfs, results, exc>>

\* lines 108-109: screenshot writes the image file
RScreenshot ==
    /\ pc = "r_shot" /\ target # "none"
    /\ steps' = Append(steps, "capture")
    /\ written' = Append(written, OutName(i, label))
    /\ pc' = "r_print"
    /\ UNCHANGED <<inputs, blocks, i, label, target, session, tmpFiles, fs, stdout,
                   pdfs, results, exc>>

\* line 109 raising: the capture fails, or mermaid_el is None and the
\* attribute screenshot is looked up on it
RScreenshotFail ==
    /\ pc = "r_shot"
    /\ RaiseInJob(IF target = "none" THEN "attribute_error"
                   ELSE "capture_failed")
    /\ UNCHANGED <<inputs, job, session, files>>

\* the page of the job left open
RClosePage_LeftOpen ==
    /\ pc = "r_print"
    /\ pc' = "r_unlink"
    /\ stdout' = Append(stdout, OutName(i, label))
    /\ UNCHANGED <<inputs, job, session, tmpFiles, fs, written, pdfs,
                   results, exc>>

\* lines 110-112: print the progress line of the image, close the page
RClosePage ==
    /\ pc = "r_print"
    /\ page' = "closed"
    /\ pc' = "r_unlink"
    /\ opened' = opened \ {i}
    /\ stdout' = Append(stdout, OutName(i, label))
    /\ UNCHANGED <<inputs, job, pw, browser, dom, styled, tmpFiles, fs,
                   written, pdfs, results, exc, launches>>

\* line 113: delete the ephemeral file, and the job has ended; unlink of a
\* file that is no longer there raises FileNotFoundError
RUnlink ==
    /\ pc = "r_unlink"
    /\ IF i \in tmpFiles
       THEN /\ tmpFiles' = tmpFiles \ {i}
            /\ results' = Append(results, "ok")
            /\ i' = i + 1
            /\ pc' = "r_loop"
            /\ UNCHANGED exc
       ELSE /\ RaiseInJob("file_not_found")
            /\ UNCHANGED <<tmpFiles, i>>
    /\ UNCHANGED <<inputs, blocks, label, target, session, fs, written,
                   stdout, pdfs, steps>>

\* the async with block is left normally; line 117 prints the success
\* report of the run
RExit ==
    /\ pc = "r_exit"
    /\ pw' = "stopped"
    /\ pc' = "done"
    /\ stdout' = Append(stdout, "all_saved")
    /\ UNCHANGED <<inputs, job, browser, page, opened, dom, styled,
                   tmpFiles, fs, written, pdfs, results, exc, launches>>

\* the success report printed on the way out of a failed run
RUnwind_Reports ==
    /\ pc = "r_unwind"
    /\ pw' = "stopped"
    /\ pc' = "crashed"
    /\ stdout' = Append(stdout, "all_saved")
    /\ UNCHANGED <<inputs, job, browser, page, opened, dom, styled,
                   tmpFiles, fs, written, pdfs, results, exc, launches>>

\* the async with block is left by an exception, which then leaves main
RUnwind ==
    /\ pc = "r_unwind"
    /\ pw' = "stopped"
    /\ pc' = "crashed"
    /\ UNCHANGED <<inputs, job, browser, page, opened, dom, styled, files,
                   results, exc, launches>>

RenderMain ==
    \/ RReadInputs \/ RReadAssetFail \/ RExtract \/ RLaunch \/ RLaunchFail
    \/ RNextJob \/ RNewPageFail \/ RCloseBrowser \/ RWriteTmp \/ RGoto \/ RGotoTimeout
    \/ RWait \/ RWaitTimeout \/ RSettle \/ RQuery \/ RScreenshot
    \/ RScreenshotFail \/ RClosePage \/ RUnlink \/ RExit \/ RUnwind

----------------------------------------------------------------------------
(* generate_pdf.main *)

\* the .mermaid elements of a loaded document: one per opening delimiter
ElementsOf(h) == [k \in 1..Count(h, "O") |-> NewElement]

\* some() written for every()
ExportPredicate_Some == \E k \in 1..Len(dom) : Rendered(dom[k])

\* the completion predicate of the export: there is a .mermaid element and
\* every one is processed or has an svg child
ExportPredicate == Len(dom) > 0 /\ \A k \in 1..Len(dom) : Rendered(dom[k])

\* an exception raised inside the try block: it reaches the exit of the
\* async with block, then the finally clause
RaiseInExport(e) ==
    /\ exc' = e
    /\ pc' = "x_unwind"

\* lines 41-43: build_offline_html() writes the ephemeral document
XBundle ==
    /\ pc = "x_bundle"
    /\ fs' = [fs EXCEPT ![OfflinePath] = WriteOffline]
    /\ pc' = "x_start"
    /\ stdout' = Append(stdout, "loading")
    /\ UNCHANGED <<inputs, job, session, tmpFiles, written, pdfs, results,
                   exc>>

\* line 25 raising inside build_offline_html: nothing was written, and main
\* is not yet inside its try block
XBundleFail ==
    /\ pc = "x_bundle"
    /\ exc' = "asset_unreadable"
    /\ pc' = "crashed"
    /\ UNCHANGED <<inputs, job, session, files, results>>

\* lines 45-46: enter the try block and start the driver
XStart ==
    /\ pc = "x_start"
    /\ pw' = "active"
    /\ pc' = "x_launch"
    /\ UNCHANGED <<inputs, job, browser, page, opened, dom, styled, files,
                   results, exc, launches>>

\* lines 47-52: chromium.launch returns
XLaunch ==
    /\ pc = "x_launch"
    /\ launches' = launches + 1
    /\ browser' = "open"
    /\ pc' = "x_page"
    /\ UNCHANGED <<inputs, job, pw, page, opened, dom, styled, files,
                   results, exc>>

\* lines 47-52: chromium.launch raises
XLaunchFail ==
    /\ pc = "x_launch"
    /\ launches' = launches + 1
    /\ RaiseInExport("launch_failed")
    /\ UNCHANGED <<inputs, job, pw, browser, page, opened, dom, styled,
                   files, results>>

\* line 53: browser.new_page()
XNewPage ==
    /\ pc = "x_page"
    /\ steps' = <<"page">>
    /\ page' = "open"
    /\ pc' = "x_goto"
    /\ opened' = opened \cup {0}
    /\ UNCHANGED <<inputs, blocks, i, label, target, pw, browser, dom,
                   styled, files, results, exc, launches>>

\* line 53: browser.new_page raises
XNewPageFail ==
    /\ pc = "x_page"
    /\ RaiseInExport("new_page_failed")
    /\ UNCHANGED <<inputs, job, session, files, results>>

\* line 56: page.goto returns at domcontentloaded
XGoto ==
    /\ pc = "x_goto" /\ offline.exists
    /\ steps' = Append(steps, "goto")
    /\ dom' = ElementsOf(offline.content)
    /\ pc' = "x_wait"
    /\ UNCHANGED <<inputs, blocks, i, label, target, pw, browser, page,
                   opened, styled, files, results, exc, launches>>

\* line 56: page.goto raises after 30 s
XGotoTimeout ==
    /\ pc = "x_goto"
    /\ RaiseInExport("navigation_timeout")
    /\ UNCHANGED <<inputs, job, session, files, results>>

\* lines 59-70: wait_for_function returns once the predicate is true
XWait ==
    /\ pc = "x_wait" /\ ExportPredicate
    /\ steps' = Append(steps, "ready")
    /\ pc' = "x_style"
    /\ stdout' = Append(stdout, "rendered")
    /\ UNCHANGED <<inputs, blocks, i, label, target, session, tmpFiles, fs,
                   written, pdfs, results, exc>>

\* lines 59-69: wait_for_function raises after 60 s without the predicate
XWaitTimeout ==
    /\ pc = "x_wait" /\ ~ExportPredicate
    /\ RaiseInExport("render_timeout")
    /\ UNCHANGED <<inputs, job, session, files, results>>

\* the style overrides injected while the diagrams are still awaited
XStyle_BeforeWait ==
    /\ pc = "x_wait" /\ ~styled
    /\ steps' = Append(steps, "style")
    /\ styled' = TRUE
    /\ UNCHANGED <<inputs, pc, blocks, i, label, target, pw, browser, page,
                   opened, dom, files, results, exc, launches>>

\* lines 73-87: page.add_style_tag
XStyle ==
    /\ pc = "x_style"
    /\ steps' = Append(steps, "style")
    /\ styled' = TRUE
    /\ pc' = "x_sleep"
    /\ UNCHANGED <<inputs, blocks, i, label, target, pw, browser, page,
                   opened, dom, files, results, exc, launches>>

\* lines 73-87: page.add_style_tag raises
XStyleFail ==
    /\ pc = "x_style"
    /\ RaiseInExport("style_failed")
    /\ UNCHANGED <<inputs, job, session, files, results>>

\* line 89: asyncio.sleep(0.5)
XSettle ==
    /\ pc = "x_sleep"
    /\ steps' = Append(steps, "settle")
    /\ pc' = "x_pdf"
    /\ UNCHANGED <<inputs, blocks, i, label, target, session, files,
                   results, exc>>

\* lines 91-101: page.pdf writes PDF_PATH
XPdf ==
    /\ pc = "x_pdf"
    /\ steps' = Append(steps, "pdf")
    /\ pdfs' = pdfs + 1
    /\ pc' = "x_close"
    /\ UNCHANGED <<inputs, blocks, i, label, target, session, tmpFiles, fs,
                   written, stdout, results, exc>>

\* lines 91-101: page.pdf raises
XPdfFail ==
    /\ pc = "x_pdf"
    /\ RaiseInExport("pdf_failed")
    /\ UNCHANGED <<inputs, job, session, files, results>>

\* line 103: browser.close()
XCloseBrowser ==
    /\ pc = "x_close"
    /\ browser' = "closed"
    /\ pc' = "x_exit"
    /\ opened' = {}
    /\ UNCHANGED <<inputs, job, pw, page, dom, styled, files, results, exc,
                   launches>>

\* the async with block is left normally; line 105 prints the success
\* report of the export
XExit ==
    /\ pc = "x_exit"
    /\ pw' = "stopped"
    /\ pc' = "x_finally"
    /\ stdout' = Append(stdout, "pdf_saved")
    /\ UNCHANGED <<inputs, job, browser, page, opened, dom, styled,
                   tmpFiles, fs, written, pdfs, results, exc, launches>>

\* the async with block is left by an exception
XUnwind ==
    /\ pc = "x_unwind"
    /\ pw' = "stopped"
    /\ pc' = "x_finally"
    /\ UNCHANGED <<inputs, job, browser, page, opened, dom, styled, files,
                   results, exc, launches>>

\* the deletion placed on the successful path only
Unlinked_OnSuccess(f) == IF exc = "none" THEN NoFile ELSE f

\* tmp_html.unlink(missing_ok=True)
Unlinked(f) == NoFile

\* lines 106-108: the finally clause deletes the ephemeral document; main
\* then returns, or the exception leaves it
XFinally ==
    /\ pc = "x_finally"
    /\ fs' = [fs EXCEPT ![OfflinePath] = Unlinked(fs[OfflinePath])]
    /\ pc' = IF exc = "none" THEN "done" ELSE "crashed"
    /\ UNCHANGED <<inputs, job, session, tmpFiles, written, stdout, pdfs,
                   results, exc>>

ExportMain ==
    \/ XBundle \/ XBundleFail \/ XStart \/ XLaunch \/ XLaunchFail \/ XNewPage
    \/ XNewPageFail \/ XGoto \/ XGotoTimeout \/ XWait \/ XWaitTimeout
    \/ XStyle \/ XStyleFail \/ XSettle
    \/ XPdf \/ XPdfFail \/ XCloseBrowser \/ XExit \/ XUnwind \/ XFinally

----------------------------------------------------------------------------

\* a step of the running entry point
ProgramStep == ExtractCall \/ BundleCall \/ RenderMain \/ ExportMain

\* a step of the rendering engine in the browser
Engine == EngineStep \/ EngineLosesElement

Next == ProgramStep \/ Engine

Spec == Init /\ [][Next]_vars

\* the event loop resumes the entry point whenever one of its awaited calls
\* can return or raise; nothing obliges the engine to make progress
SpecLive == Init /\ [][Next]_vars /\ WF_vars(ProgramStep)

\* the local state of the run that is stepping
Local ==
    [pc |-> pc, blocks |-> blocks, i |-> i, label |-> label,
     target |-> target, pw |-> pw, browser |-> browser, page |-> page,
     dom |-> dom, styled |-> styled, written |-> written, pdfs |-> pdfs,
     results |-> results, exc |-> exc, launches |-> launches,
     steps |-> steps, opened |-> opened, stdout |-> stdout]

\* the operating system runs the other process: the two runs share the
\* directory (fs, tmpFiles) and nothing else
Switch ==
    /\ other # NoRun
    /\ other' = Local
    /\ pc' = other.pc /\ blocks' = other.blocks /\ i' = other.i
    /\ label' = other.label /\ target' = other.target /\ pw' = other.pw
    /\ browser' = other.browser /\ page' = other.page /\ dom' = other.dom
    /\ styled' = other.styled /\ written' = other.written
    /\ pdfs' = other.pdfs /\ results' = other.results /\ exc' = other.exc
    /\ launches' = other.launches /\ steps' = other.steps
    /\ opened' = other.opened /\ stdout' = other.stdout
    /\ UNCHANGED <<prog, segs, html, asset, tmpFiles, fs>>

NextPair == Next \/ Switch

\* two runs of one entry point on the same document, in the same directory
SpecPair == InitPair /\ [][NextPair]_vars

\* the run has ended: main returned, or an exception left it
Ended == pc \in {"done", "crashed"}

----------------------------------------------------------------------------
(* Properties *)

\* the images written so far, as a set of names
WrittenNames == { written[k] : k \in 1..Len(written) }

\* C1: in the per-diagram batch a failure of the job for diagram k (a
\* navigation timeout, a render-completion timeout, a capture error) is
\* confined to that job: it yields a failure result, no exception crosses
\* the batch loop, and once the run has ended every later diagram has had
\* its job too.
C1_FailureConfinedToJob ==
    prog = "render" =>
        \A k \in 1..Len(results) :
            results[k] \in {"navigation_timeout", "render_timeout",
                            "capture_failed"} =>
                /\ exc = "none"
                /\ pc # "r_unwind"
                /\ Ended => Len(results) = Len(blocks)

\* C2: once a per-diagram job has ended, by success or by any failure, its
\* page is closed and its ephemeral file _tmp_diagram_<k>.html is gone.
C2_JobCleansUp ==
    prog = "render" =>
        /\ \A k \in tmpFiles : k >= Len(results)
        /\ (Len(results) > i) => page # "open"

\* C3: a job whose completion predicate did not become true within the
\* timeout ends as a failure that ends the run with the timeout error, and
\* that job has written nothing at its output path: the images on disk are
\* those of the earlier jobs only.
C3_TimeoutWritesNothing ==
    (prog = "render" /\ exc = "render_timeout") =>
        /\ Len(results) = i + 1
        /\ results[i + 1] = "render_timeout"
        /\ pc \in {"r_unwind", "crashed"}
        /\ OutName(i, label) \notin WrittenNames
        /\ Len(written) = i

\* the third job of a run timed out after two images were written
C3_Witness ==
    /\ prog = "render" /\ pc = "crashed" /\ exc = "render_timeout"
    /\ i = 2 /\ Len(written) = 2

\* C4: in both pipelines a browser session that was launched is closed by
\* browser.close on every exit path of the run.
C4_BrowserClosedOnExit ==
    (prog \in {"render", "export"} /\ Ended) => browser # "open"

\* C5: in the document export, once _process_flows_offline.html has been
\* written it is deleted on every exit path of main.
C5_OfflineDeletedOnExit ==
    (prog = "export" /\ Ended) => ~offline.exists

\* an export that failed after the ephemeral document was written, with the
\* document gone when the exception leaves main
C5_Witness ==
    /\ prog = "export" /\ pc = "crashed"
    /\ exc \in {"launch_failed", "navigation_timeout", "render_timeout",
                "pdf_failed"}
    /\ ~offline.exists

\* C6: the document export is all or nothing: page.pdf is invoked, and a PDF
\* exists, only with every .mermaid element of the page processed or holding
\* an svg child; an export whose aggregate predicate timed out is aborted and
\* has written no PDF.
C6_ExportAllOrNothing ==
    prog = "export" =>
        /\ (pc = "x_pdf" \/ pdfs > 0) =>
               \A k \in 1..Len(dom) : dom[k].processed \/ dom[k].svg
        /\ exc = "render_timeout" =>
               (pdfs = 0 /\ pc \in {"x_unwind", "x_finally", "crashed"})

\* a PDF written from a page of two diagrams
C6_Witness == prog = "export" /\ pdfs = 1 /\ Len(dom) = 2

RECURSIVE DropLeadingSpace(_)
DropLeadingSpace(b) ==
    IF b # <<>> /\ Head(b) = "n" THEN DropLeadingSpace(Tail(b)) ELSE b

RECURSIVE DropTrailingSpace(_)
DropTrailingSpace(b) ==
    IF b # <<>> /\ b[Len(b)] = "n"
    THEN DropTrailingSpace(SubSeq(b, 1, Len(b) - 1)) ELSE b

RECURSIVE BlockContents(_)
\* the inner texts of the diagram blocks a document was composed of, in
\* document order, each without its leading and trailing whitespace
BlockContents(sg) ==
    IF sg = <<>> THEN <<>>
    ELSE (IF Head(sg).kind = "block"
          THEN <<DropTrailingSpace(DropLeadingSpace(Head(sg).body))>>
          ELSE <<>>)
         \o BlockContents(Tail(sg))

\* every opening delimiter of the document has its closing delimiter
WellDelimited(sg) == \A k \in 1..Len(sg) : sg[k].kind # "open"

\* the extraction result is available
Extracted ==
    \/ prog = "extract" /\ pc = "done"
    \/ prog = "render" /\ pw # "none"

\* C7: for a document of N correctly delimited diagram blocks, N >= 0,
\* extract_mermaid_blocks returns exactly N entries, and entry j is the
\* content of the j-th block in document order, whatever the contents are.
C7_ExtractsEveryBlockInOrder ==
    (Extracted /\ WellDelimited(segs)) => blocks = BlockContents(segs)

\* two blocks of different contents extracted, the first holding a newline
\* inside its text
C7_Witness ==
    /\ prog = "extract" /\ pc = "done"
    /\ Len(blocks) = 2
    /\ blocks[1] = <<"a", "n", "a">>
    /\ blocks[2] = <<"a">>

\* the name the claim gives the image of the diagram at 0-based position k
C8_Name(k) ==
    (IF k + 1 < 10 THEN "0" ELSE "") \o ToString(k + 1) \o "_"
    \o (IF k + 1 <= Len(DIAGRAM_LABELS) THEN DIAGRAM_LABELS[k + 1]
        ELSE "diagram_" \o ToString(k + 1))
    \o ".png"

\* C8: when all N jobs succeed the run writes exactly N image files, and the
\* file of 0-based position k is named by k+1 padded to two digits and the
\* k-th label of the table, or diagram_<k+1> beyond the table.
C8_NamesByPosition ==
    (prog = "render" /\ Len(results) = Len(blocks)
        /\ \A k \in 1..Len(results) : results[k] = "ok")
    => /\ Len(written) = Len(blocks)
       /\ Cardinality(WrittenNames) = Len(blocks)
       /\ \A k \in 0..(Len(blocks) - 1) : written[k + 1] = C8_Name(k)
       /\ Len(blocks) >= 1 => written[1] = "01_system_overview.png"
       /\ Len(blocks) >= 12 => written[12] = "12_diagram_12.png"

\* a run of twelve diagrams, one more than the label table holds, ended
\* with every image written
C8_Witness ==
    /\ prog = "render" /\ pc = "done"
    /\ Len(blocks) = 12 /\ Len(written) = 12

\* the bundler has returned
BundlerReturned ==
    \/ prog = "bundle" /\ pc = "done"
    \/ prog = "export" /\ pc = "x_start"

\* the text t stands in h at position p
OccursAt(h, t, p) ==
    /\ p >= 1 /\ p + Len(t) - 1 <= Len(h)
    /\ SubSeq(h, p, p + Len(t) - 1) = t

RECURSIVE ScriptRefs(_, _)
\* the CDN script tags of a document that a browser would load: those that
\* stand in the markup, outside the body of an inline script (inBody is
\* TRUE between <script> and the next </script>)
ScriptRefs(h, inBody) ==
    IF h = <<>> THEN 0
    ELSE IF inBody THEN ScriptRefs(Tail(h), Head(h) # "E")
    ELSE (IF Head(h) = "S" THEN 1 ELSE 0) + ScriptRefs(Tail(h), Head(h) = "B")

\* the bundled document holds no CDN script reference, and holds the asset's
\* text, whole and unchanged, between <script> and </script>
C9_Inlined ==
    /\ ScriptRefs(offline.content, FALSE) = 0
    /\ \E p \in 1..Len(offline.content) :
          /\ offline.content[p] = "B"
          /\ OccursAt(offline.content, asset, p + 1)
          /\ p + Len(asset) + 1 <= Len(offline.content)
          /\ offline.content[p + Len(asset) + 1] = "E"
    /\ Len(offline.content) = Len(html) + Len(asset) + 1

\* C9 as stated: when the document contains the expected CDN script
\* reference, the bundled document contains no remaining CDN script reference
\* and the inlined script body equals the engine asset exactly.
C9_Original ==
    (BundlerReturned /\ Count(html, "S") >= 1) => C9_Inlined

\* C9 as amended: the same, for a document that contains exactly one script
\* tag matching the CDN pattern.
C9_SingleReferenceInlined ==
    (BundlerReturned /\ Count(html, "S") = 1) => C9_Inlined

\* a document with text on both sides of its one CDN tag, bundled with a
\* two-character asset
C9_Witness ==
    /\ prog = "bundle" /\ pc = "done"
    /\ html = <<"a", "S", "a">>
    /\ asset = <<"j", "j">>
    /\ offline.content = <<"a", "B", "j", "j", "E", "a">>

\* C10: when the document holds no script tag matching the CDN pattern the
\* bundler still completes without error and its output document is its
\* input document.
C10_NoReferenceUnchanged ==
    (Count(html, "S") = 0 /\ prog \in {"bundle", "export"}) =>
        /\ BundlerReturned => (offline.exists /\ exc = "none")
        /\ offline.exists => offline.content = html
        /\ prog = "bundle" => pc \in {"b_call", "done"}

\* a document without the CDN tag, bundled into the ephemeral file
C10_Witness ==
    /\ prog = "bundle" /\ pc = "done" /\ exc = "none"
    /\ Count(html, "S") = 0 /\ Len(html) = 3
    /\ offline.exists /\ offline.content = html

\* C11: for a document with no diagram block the extraction returns the
\* empty sequence and the per-diagram run completes normally: no job is
\* started, no page is opened, no ephemeral or image file is written, and no
\* error is raised (the document raises none: what can still fail is the
\* reading of the asset and the launch of the browser).
C11_EmptyDocumentCompletes ==
    BlockContents(segs) = <<>> =>
        /\ (prog = "extract" /\ pc = "done") => blocks = <<>>
        /\ prog = "render" =>
            /\ blocks = <<>>
            /\ page = "none" /\ steps = <<>> /\ results = <<>>
            /\ tmpFiles = {} /\ written = <<>>
            /\ exc \in {"none", "asset_unreadable", "launch_failed"}
            /\ (Ended /\ exc = "none") => (pc = "done" /\ browser = "closed")

\* a per-diagram run on a document without blocks, ended normally after it
\* launched and closed the browser
C11_Witness ==
    /\ prog = "render" /\ pc = "done" /\ BlockContents(segs) = <<>>
    /\ launches = 1 /\ browser = "closed"

\* the run is inside the body of the loop
InJob(p) ==
    p \in {"r_write", "r_goto", "r_wait", "r_sleep", "r_query", "r_shot",
           "r_print", "r_unlink"}

\* C12: two runs of the per-diagram pipeline on the same document, stepped
\* side by side, compute the same output names: the images they have written
\* agree name by name, and while both are in the job of the same index they
\* hold the same label, whatever the engine did in either run and whichever
\* of them failed.
C12_SameNamesInBothRuns ==
    (prog = "render" /\ other # NoRun) =>
        /\ \A k \in 1..Len(written) :
               k <= Len(other.written) => written[k] = other.written[k]
        /\ (InJob(pc) /\ InJob(other.pc) /\ i = other.i) =>
               /\ label = other.label
               /\ OutName(i, label) = OutName(other.i, other.label)

\* one run wrote both images and ended, the other wrote the first image and
\* was ended by the render timeout of its second job
C12_Witness ==
    /\ prog = "render" /\ other # NoRun
    /\ pc = "done" /\ Len(written) = 2
    /\ other.pc = "crashed" /\ other.exc = "render_timeout"
    /\ Len(other.written) = 1

\* C13: the document export of a document with zero or more diagram blocks,
\* each of which completes rendering in time, writes exactly one PDF: an
\* export that ended without error wrote one, and an export is ended by the
\* render timeout only when the page holds a diagram (a document without any
\* diagram block is exported).
C13_ExportWritesOnePdf ==
    (prog = "export" /\ Ended) =>
        /\ exc = "none" => pdfs = 1
        /\ exc = "render_timeout" => Len(dom) > 0

\* C14: an asset or environment error aborts the run without retry: the
\* launch is attempted at most once, after the error no job or export step
\* runs and no image or PDF is written, and with the asset unreadable the
\* browser is never launched and no ephemeral document is created.
C14_EnvironmentErrorAborts ==
    prog \in {"render", "export"} =>
        /\ launches <= 1
        /\ exc \in {"asset_unreadable", "launch_failed"} =>
            /\ pc \in {"r_unwind", "x_unwind", "x_finally", "crashed"}
            /\ browser = "none" /\ page = "none"
            /\ steps = <<>> /\ results \in {<<>>, <<exc>>}
            /\ written = <<>> /\ pdfs = 0 /\ tmpFiles = {}
        /\ exc = "asset_unreadable" =>
            /\ pw = "none" /\ launches = 0
            /\ ~offline.exists

\* an export ended by the failure of its one launch
C14_Witness ==
    /\ prog = "export" /\ pc = "crashed" /\ exc = "launch_failed"
    /\ launches = 1

\* C15: no step of the bundler, of the export or of the per-diagram run
\* writes, truncates or deletes process_flows.html: the file holds at every
\* moment of every run, ended well or not, the text it held at the start.
C15_SourceUntouched ==
    source = [exists |-> TRUE, content |-> Flatten(segs)]

\* an export that bundled a document with an engine reference, failed at
\* page.pdf and deleted the ephemeral document
C15_Witness ==
    /\ prog = "export" /\ pc = "crashed" /\ exc = "pdf_failed"
    /\ Count(html, "S") = 1 /\ ~offline.exists
    /\ source.exists

\* C16: the image files are written in document order: of two images
\* written in one run, the one of the diagram at the smaller position was
\* written first.
C16_WrittenInSourceOrder ==
    prog = "render" =>
        LET name == [k \in 0..(Len(blocks) - 1) |-> C8_Name(k)]
        IN \A ka \in DOMAIN name : \A kb \in DOMAIN name :
               ka < kb =>
                   \A a \in 1..Len(written) : \A b \in 1..Len(written) :
                       (written[a] = name[ka] /\ written[b] = name[kb])
                           => a < b

\* three images written
C16_Witness ==
    /\ prog = "render" /\ Len(written) = 3
    /\ written[1] = C8_Name(0) /\ written[3] = C8_Name(2)

\* C17: every wait of a run is bounded, so that a per-diagram run, and a
\* document export, reaches a terminal state (completed, or ended by a
\* reported failure) whatever the number of blocks and even when the engine
\* never completes a diagram.
C17_RunTerminates == <>Ended

\* a per-diagram run ended by the render timeout with the diagram of its
\* page never rendered
C17_Witness ==
    /\ prog = "render" /\ pc = "crashed" /\ exc = "render_timeout"
    /\ Len(dom) = 1 /\ ~Rendered(dom[1])

\* C18: when after the completion predicate passed neither ".mermaid svg"
\* nor ".mermaid" is found on the page, the job ends as a failed job with a
\* descriptive error instead of crashing on the absent element: no exception
\* leaves the job, and no image is written for the diagram.
C18_MissingElementHandled ==
    (prog = "render" /\ pc \in {"r_shot", "r_unwind", "crashed"}
        /\ target = "none" /\ "query" \in { steps[k] : k \in 1..Len(steps) })
    => /\ exc # "attribute_error"
       /\ pc # "crashed"
       /\ OutName(i, label) \notin WrittenNames

\* the steps of a job, in the order of the loop body
JobSteps == <<"page", "write", "goto", "ready", "settle", "query", "capture">>

\* the steps of the export, in the order of main
ExportSteps == <<"page", "goto", "ready", "style", "settle", "pdf">>

IsPrefix(sq, full) ==
    Len(sq) <= Len(full) /\ sq = SubSeq(full, 1, Len(sq))

Logged(st) == st \in { steps[k] : k \in 1..Len(steps) }

\* C19: in a per-diagram job the steps come in the order ephemeral document
\* written, navigation, completion predicate observed true, one settle
\* delay, capture; an image is written only by a job that observed the
\* predicate true (its element, while on the page, is processed or holds an
\* svg child) and only after the settle delay.
C19_JobStepOrder ==
    prog = "render" =>
        /\ IsPrefix(steps, JobSteps)
        /\ (Logged("ready") /\ Len(dom) >= 1) => Rendered(dom[1])
        /\ (InJob(pc) /\ Logged("capture")) => Len(written) = i + 1
        /\ Len(written) \in {i, i + 1}
        /\ Len(written) = i + 1 => Logged("capture")

\* a job that has captured its element after the whole sequence of steps
C19_Witness ==
    /\ prog = "render" /\ pc = "r_print" /\ steps = JobSteps
    /\ Len(written) = i + 1

\* C20: in the document export the print styles are injected only after the
\* aggregate predicate was observed true, and the PDF is exported only after
\* the injection and the settle delay that follows it: the order is wait for
\* all diagrams, inject styles, settle, export.
C20_ExportStepOrder ==
    prog = "export" =>
        /\ IsPrefix(steps, ExportSteps)
        /\ Logged("ready") => ExportPredicate
        /\ styled <=> Logged("style")
        /\ styled => Logged("ready")
        /\ pdfs > 0 <=> Logged("pdf")
        /\ pc = "x_pdf" => (styled /\ Logged("settle"))

\* an export that wrote its PDF after the whole sequence of steps
C20_Witness ==
    /\ prog = "export" /\ pdfs = 1 /\ steps = ExportSteps /\ styled

\* C21: the jobs of a per-diagram run go one at a time through the one
\* browser session: at most one page is open and at most one ephemeral
\* diagram file exists at any moment, both belong to the job of the current
\* index, and when the loop turns to the next job the page of the job before
\* has been closed.
C21_OneJobAtATime ==
    prog = "render" =>
        /\ Cardinality(opened) <= 1
        /\ Cardinality(tmpFiles) <= 1
        /\ opened \subseteq {i} /\ tmpFiles \subseteq {i}
        /\ launches <= 1
        /\ pc = "r_loop" => (opened = {} /\ tmpFiles = {})

\* the second job has its page open, after the first closed its own
C21_Witness ==
    /\ prog = "render" /\ pc = "r_goto" /\ i = 1
    /\ opened = {1} /\ tmpFiles = {1} /\ results = <<"ok">>

\* the job has written its ephemeral file and has not deleted it yet
HoldsTmp(p) ==
    p \in {"r_goto", "r_wait", "r_sleep", "r_query", "r_shot", "r_print",
           "r_unlink"}

\* the export has written its ephemeral document and has not deleted it yet
HoldsOffline(p) ==
    p \in {"x_start", "x_launch", "x_page", "x_goto", "x_wait", "x_style",
           "x_sleep", "x_pdf", "x_close", "x_exit", "x_unwind", "x_finally"}

\* C22: an ephemeral document is named uniquely and owned by the job that
\* created it, also with two runs in one directory: two live jobs never
\* hold the same ephemeral file, and the file of a live job is there until
\* that job deletes it (nobody else overwrites or deletes it).
C22_EphemeralFilesExclusive ==
    /\ prog = "render" =>
        /\ HoldsTmp(pc) => i \in tmpFiles
        /\ (other # NoRun /\ HoldsTmp(pc) /\ HoldsTmp(other.pc))
               => i # other.i
    /\ prog = "export" =>
        /\ HoldsOffline(pc) => offline.exists
        /\ other # NoRun => ~(HoldsOffline(pc) /\ HoldsOffline(other.pc))

\* C23: a malformed block (an opening delimiter that no closing delimiter
\* matches) is left out of the extraction result without partial recovery
\* and without effect on the correctly delimited blocks of the document:
\* the result is exactly the list of the well-formed blocks' contents.
C23_MalformedExcluded ==
    (prog = "extract" /\ pc = "done" /\ ~WellDelimited(segs))
        => blocks = BlockContents(segs)

IsBlock(sg) == sg.kind = "block"

\* b without its leading and trailing whitespace, by the positions of its
\* first and last character that is not whitespace
Trimmed(b) ==
    LET ink == { k \in 1..Len(b) : ~IsSpace(b[k]) }
    IN IF ink = {} THEN <<>>
       ELSE SubSeq(b, CHOOSE k \in ink : \A m \in ink : k <= m,
                      CHOOSE k \in ink : \A m \in ink : k >= m)

\* C25: every extracted definition is the inner text of its block without
\* the leading and trailing whitespace and with every interior character,
\* whitespace and newlines included, as it stands; a block whose inner text
\* is whitespace only is returned too, as the empty text.
C25_TrimmedVerbatim ==
    (prog = "extract" /\ pc = "done" /\ WellDelimited(segs)) =>
        LET bs == SelectSeq(segs, IsBlock)
        IN /\ Len(blocks) = Len(bs)
           /\ \A k \in 1..Len(bs) :
                /\ blocks[k] = Trimmed(bs[k].body)
                /\ (\A m \in 1..Len(bs[k].body) : IsSpace(bs[k].body[m]))
                       => blocks[k] = <<>>

\* a block of whitespace only returned as the empty text, and a block with
\* a newline between two characters returned as it stands
C25_Witness ==
    /\ prog = "extract" /\ pc = "done" /\ Len(segs) = 2
    /\ segs[1] = Block(<<"n", "n">>) /\ segs[2] = Block(<<"a", "n", "a">>)
    /\ blocks = << <<>>, <<"a", "n", "a">> >>

\* the positions of the diagrams whose image has been written
WrittenPositions ==
    LET name == [k \in 0..(Len(blocks) - 1) |-> C8_Name(k)]
    IN { k \in DOMAIN name : name[k] \in WrittenNames }

\* C26: the positions of the diagrams whose image this run has written are
\* at every moment a prefix 0..k-1 of the document order; when the run
\* stops at a failing job k the images written are those of the positions
\* below k, and none at or above k.
C26_WrittenIsPrefix ==
    prog = "render" =>
        /\ WrittenPositions = 0..(Len(written) - 1)
        /\ Cardinality(WrittenNames) = Len(written)
        /\ (pc \in {"r_unwind", "crashed"} /\ results # <<>>) =>
               WrittenPositions = 0..(i - 1)

\* a run stopped by the failed capture of its third job, with the images of
\* the first two written
C26_Witness ==
    /\ prog = "render" /\ pc = "crashed" /\ exc = "capture_failed"
    /\ i = 2 /\ Len(written) = 2 /\ Len(blocks) >= 4

\* C27: the bundler replaces the first script tag matching the CDN pattern
\* and nothing else: its output is the text of the input before that match,
\* the inline script, and the text of the input after the match, so that a
\* later matching tag and every other character stay as they were.
C27_OnlyFirstTagReplaced ==
    (BundlerReturned /\ Count(html, "S") >= 1) =>
        \E p \in 1..Len(html) :
            /\ html[p] = "S"
            /\ \A q \in 1..(p - 1) : html[q] # "S"
            /\ offline.content =
                   SubSeq(html, 1, p - 1) \o <<"B">> \o asset \o <<"E">>
                   \o SubSeq(html, p + 1, Len(html))
            /\ Count(offline.content, "S") =
                   Count(html, "S") - 1 + Count(asset, "S")

\* a document with two matching tags bundled: the second tag is still there
C27_Witness ==
    /\ prog = "bundle" /\ pc = "done"
    /\ html = <<"S", "a", "S">> /\ asset = <<"j">>
    /\ offline.content = <<"B", "j", "E", "a", "S">>

\* labels a table could hold at any position: those of the table, and the
\* generated labels diagram_<n>
AnyLabels ==
    { DIAGRAM_LABELS[k] : k \in 1..Len(DIAGRAM_LABELS) }
    \cup { "diagram_" \o ToString(k) : k \in 1..MaxBlocks }

\* C28: within one run the file name is an injective function of the
\* position: the images written have pairwise different names, and the name
\* of the current job differs from the name of every earlier position
\* whatever label that position had, the current label and the generated
\* labels included; no job overwrites the image of another job.
C28_NamesInjective ==
    prog = "render" =>
        /\ \A a \in 1..Len(written) : \A b \in 1..Len(written) :
               a # b => written[a] # written[b]
        /\ InJob(pc) =>
               LET mine == OutName(i, label)
               IN \A j \in 0..(i - 1) : \A lab \in AnyLabels \cup {label} :
                      OutName(j, lab) # mine

\* the job of the twelfth diagram, which has a generated label, after the
\* eleven images of the table's labels were written
C28_Witness ==
    /\ prog = "render" /\ pc = "r_shot" /\ i = 11
    /\ label = "diagram_12" /\ Len(written) = 11

\* the lines printed so far
Printed == { stdout[k] : k \in 1..Len(stdout) }

\* the progress lines printed so far, each by the file name it reports
ProgressLines ==
    Printed \ {"found", "all_saved", "loading", "rendered", "pdf_saved"}

\* C29: a run that failed prints no success report: "All diagram images
\* saved" is printed only by a per-diagram run in which every job captured
\* its image and the browser was closed, "PDF saved" only by an export whose
\* page.pdf returned and whose browser was closed, and the progress line of
\* a diagram only after its image was captured.
C29_SuccessReportOnlyAfterSuccess ==
    /\ prog = "render" =>
        /\ "all_saved" \in Printed =>
            /\ pc = "done" /\ exc = "none" /\ browser = "closed"
            /\ Len(written) = Len(blocks) /\ Len(results) = Len(blocks)
            /\ \A k \in 1..Len(results) : results[k] = "ok"
        /\ exc # "none" => "all_saved" \notin Printed
        /\ ProgressLines \subseteq WrittenNames
        /\ "pdf_saved" \notin Printed
    /\ prog = "export" =>
        /\ "pdf_saved" \in Printed =>
            /\ pdfs = 1 /\ browser = "closed" /\ exc = "none"
            /\ pc \in {"x_finally", "done"}
        /\ exc # "none" => "pdf_saved" \notin Printed
        /\ "all_saved" \notin Printed

\* a per-diagram run of two diagrams ended with its success report printed
\* after the two progress lines
C29_Witness ==
    /\ prog = "render" /\ pc = "done" /\ Len(blocks) = 2
    /\ stdout = <<"found", C8_Name(0), C8_Name(1), "all_saved">>

====
